---- MODULE Spec2Model ----
(***************************************************************************)
(* Model of the CircuitJS1 WASM matrix solver:                             *)
(*   src/wasm/matrix_solver.c       (scalar build)                         *)
(*   src/wasm/matrix_solver_simd.c  (vectorized build)                     *)
(*                                                                         *)
(* lu_factor (Crout LU with partial pivoting) and lu_solve are modelled    *)
(* over exact rational arithmetic: a double is a reduced fraction          *)
(* <<numerator, denominator>> with a positive denominator, so every        *)
(* statement about values is a statement "in exact arithmetic".  The       *)
(* build is chosen once (variable simd), as it is at compile time.         *)
(***************************************************************************)
EXTENDS Integers, Sequences, FiniteSets, TLC

\* ---------------------------------------------------------------- bounds
\* largest matrix dimension n
MaxN == 4
\* matrices of dimension n <= 2 have every entry in -MaxVal..MaxVal
MaxVal == 2
\* matrices of dimension n >= 3 are pentadiagonal Toeplitz matrices with
\* diagonals in 0..MaxT
MaxT == 2
\* right-hand sides: leading zeros, then a value in 1..MaxB, then a tail
MaxB == 1

\* ------------------------------------------------------- exact arithmetic
Abs(x) == IF x < 0 THEN -x ELSE x

RECURSIVE GCD(_, _)
GCD(x, y) == IF y = 0 THEN x ELSE GCD(y, x % y)

\* the fraction p/q (q # 0) in lowest terms with a positive denominator
\* (q = 0: the non-finite value <<1, 0>>, which every operation propagates)
Norm(p, q) ==
    IF q = 0 THEN << 1, 0 >>
    ELSE LET s == IF q < 0 THEN -1 ELSE 1
             g == GCD(Abs(p), Abs(q))
         IN  << (s * p) \div g, (s * q) \div g >>

R(v) == << v, 1 >>
Zero == << 0, 1 >>
One == << 1, 1 >>

\* x - y * z is the only arithmetic the loops do besides the division
RMul(x, y) == Norm(x[1] * y[1], x[2] * y[2])
RAdd(x, y) == Norm(x[1] * y[2] + y[1] * x[2], x[2] * y[2])
RSub(x, y) == Norm(x[1] * y[2] - y[1] * x[2], x[2] * y[2])
\* x / y; a division by zero yields a non-finite value, written <<1, 0>>
RDiv(x, y) == IF y[1] = 0 THEN << 1, 0 >> ELSE Norm(x[1] * y[2], x[2] * y[1])
\* fabs(x)
fabs(x) == << Abs(x[1]), x[2] >>
\* x >= y
RGeq(x, y) == x[1] * y[2] >= y[1] * x[2]

\* ------------------------------------------------------------------ state
VARIABLES
    simd,        \* TRUE: matrix_solver_simd.c is the linked build
    n,           \* matrix dimension
    a,           \* the matrix buffer, row-major: a[i*n + j]
    ipvt,        \* the pivot-index buffer
    b,           \* the right-hand-side / solution buffer
    pc,          \* position of the caller / of lu_factor
    j,           \* lu_factor's column counter
    largestRow,  \* lu_factor's pivot candidate for column j
    ret,         \* lu_factor's return value (-2 while it has not returned)
    bi,          \* lu_solve's first-nonzero index
    i,           \* lu_solve's row counter after the scan loop
    a0,          \* the matrix as the caller supplied it
    ipvt0,       \* the pivot buffer as the caller supplied it
    b0,          \* the right-hand side as the caller supplied it
    exchanged,   \* history: columns of lu_factor whose row swap loop ran
    xlog,        \* history: rows i whose b[i] <-> b[ipvt[i]] exchange ran
    again        \* history: lu_solve has returned before on this factorization

vars == << simd, n, a, ipvt, b, pc, j, largestRow, ret, bi, i,
           a0, ipvt0, b0, exchanged, xlog, again >>

\* --------------------------------------------------- lu_factor: pre-check
\* row i of the n x n matrix m holds only zeros
row_all_zeros(m, nn, r) == \A c \in 0 .. nn - 1 : m[r * nn + c] = Zero

\* (mutant of ZeroRowCheck: the scan reports the last all-zero row)
ZeroRowCheckLast(m, nn) ==
    IF \E r \in 0 .. nn - 1 : row_all_zeros(m, nn, r)
    THEN CHOOSE r \in 0 .. nn - 1 :
             /\ row_all_zeros(m, nn, r)
             /\ \A r2 \in r + 1 .. nn - 1 : ~row_all_zeros(m, nn, r2)
    ELSE -1

\* the value the pre-check loop returns, or -1 when it falls through
ZeroRowCheck(m, nn) ==
    IF \E r \in 0 .. nn - 1 : row_all_zeros(m, nn, r)
    THEN CHOOSE r \in 0 .. nn - 1 :
             /\ row_all_zeros(m, nn, r)
             /\ \A r2 \in 0 .. r - 1 : ~row_all_zeros(m, nn, r2)
    ELSE -1

\* ------------------------------------------- lu_factor: column reduction
\* q after "for (k = k0; k < kend; k++) q -= a[r*n + k] * a[k*n + c]"
RECURSIVE SubProducts(_, _, _, _, _, _, _)
SubProducts(q, m, nn, r, c, k, kend) ==
    IF k >= kend THEN q
    ELSE SubProducts(RSub(q, RMul(m[r * nn + k], m[k * nn + c])),
                     m, nn, r, c, k + 1, kend)

\* the two lanes of sum after the paired loop
\* "for (; k2 + 1 < kend; k2 += 2) sum += (a_ik0*a_kj0, a_ik1*a_kj1)"
RECURSIVE PairLanes(_, _, _, _, _, _, _)
PairLanes(sum, m, nn, r, c, k2, kend) ==
    IF k2 + 1 >= kend THEN sum
    ELSE PairLanes(<< RAdd(sum[1], RMul(m[r * nn + k2], m[k2 * nn + c])),
                      RAdd(sum[2], RMul(m[r * nn + k2 + 1], m[(k2 + 1) * nn + c])) >>,
                   m, nn, r, c, k2 + 2, kend)

\* (mutant of PairStop: the trailing element is never handled)
PairStopAtEnd(k0, kend) == kend

\* the index at which the paired loop over [k0, kend) stops
PairStop(k0, kend) == IF kend - k0 < 2 THEN k0 ELSE kend - ((kend - k0) % 2)

\* the reduced value of a[r][c] in the lower part of column c (r >= c)
LowerQ(sv, m, nn, r, c) ==
    IF sv /\ c > 1
    THEN LET sum == PairLanes(<< Zero, Zero >>, m, nn, r, c, 0, c)
             q1 == RSub(m[r * nn + c], RAdd(sum[1], sum[2]))
         IN  SubProducts(q1, m, nn, r, c, PairStop(0, c), c)
    ELSE SubProducts(m[r * nn + c], m, nn, r, c, 0, c)

\* the upper part of column c: rows r = r0 .. c-1 in increasing order
RECURSIVE UpperLoop(_, _, _, _)
UpperLoop(m, nn, c, r) ==
    IF r >= c THEN m
    ELSE UpperLoop([m EXCEPT ![r * nn + c] =
                        SubProducts(m[r * nn + c], m, nn, r, c, 0, r)],
                   nn, c, r + 1)

\* (mutant of PivotTest: a strict comparison)
PivotTestStrict(x, largest) == RGeq(x, largest) /\ x # largest

\* "if (x >= largest)": row r replaces the pivot candidate
PivotTest(x, largest) == RGeq(x, largest)

\* the lower part of column c: rows r .. n-1 in increasing order, tracking
\* the pivot candidate; st = [a, largest, largestRow]
RECURSIVE LowerLoop(_, _, _, _, _)
LowerLoop(sv, st, nn, c, r) ==
    IF r >= nn THEN st
    ELSE LET q == LowerQ(sv, st.a, nn, r, c)
             x == fabs(q)
             m2 == [st.a EXCEPT ![r * nn + c] = q]
         IN  LowerLoop(sv,
                       IF PivotTest(x, st.largest)
                       THEN [a |-> m2, largest |-> x, largestRow |-> r]
                       ELSE [st EXCEPT !.a = m2],
                       nn, c, r + 1)

\* one column's reduction: the upper part, then the lower part
ReduceColumn(sv, m, nn, c) ==
    LowerLoop(sv, [a |-> UpperLoop(m, nn, c, 0), largest |-> Zero,
                   largestRow |-> -1], nn, c, c)

\* ------------------------------------------------- lu_factor: pivot step
\* scalar build: rows r1 and r2 exchanged over all n columns
SwapRowsScalar(m, nn, r1, r2) ==
    [p \in DOMAIN m |->
        IF p \div nn = r1 THEN m[r2 * nn + (p % nn)]
        ELSE IF p \div nn = r2 THEN m[r1 * nn + (p % nn)]
        ELSE m[p]]

\* vectorized build: swap_rows_simd, two columns per step from column c,
\* then the trailing column when n is odd
RECURSIVE swap_rows_simd(_, _, _, _, _)
swap_rows_simd(m, nn, r1, r2, c) ==
    IF c + 1 < nn
    THEN swap_rows_simd([m EXCEPT ![r1 * nn + c] = m[r2 * nn + c],
                                  ![r1 * nn + c + 1] = m[r2 * nn + c + 1],
                                  ![r2 * nn + c] = m[r1 * nn + c],
                                  ![r2 * nn + c + 1] = m[r1 * nn + c + 1]],
                        nn, r1, r2, c + 2)
    ELSE IF c < nn
    THEN [m EXCEPT ![r1 * nn + c] = m[r2 * nn + c],
                   ![r2 * nn + c] = m[r1 * nn + c]]
    ELSE m

SwapRows(sv, m, nn, r1, r2) ==
    IF sv THEN swap_rows_simd(m, nn, r1, r2, 0) ELSE SwapRowsScalar(m, nn, r1, r2)

\* (mutant of ScaleColumn: the column is multiplied by the pivot)
ScaleColumnByPivot(m, nn, c) ==
    [p \in DOMAIN m |->
        IF p % nn = c /\ p \div nn > c THEN RMul(m[p], m[c * nn + c]) ELSE m[p]]

\* "a[r*n + c] *= mult" for r = c+1 .. n-1, mult = 1.0 / a[c*n + c]
ScaleColumn(m, nn, c) ==
    LET mult == RDiv(One, m[c * nn + c])
    IN  [p \in DOMAIN m |->
            IF p % nn = c /\ p \div nn > c THEN RMul(m[p], mult) ELSE m[p]]

\* (mutant of ZeroDiagonal: the test sits inside "if (j != n - 1)")
ZeroDiagonalNotLast(m, nn, c) == m[c * nn + c] = Zero /\ c # nn - 1

\* "if (a[c*n + c] == 0.0)": the zero-diagonal test of column c
ZeroDiagonal(m, nn, c) == m[c * nn + c] = Zero

\* (mutant of PivotEntry: the column's own index is recorded)
PivotEntryOwnRow(c, lr) == c

\* the ipvt entry written for column c
PivotEntry(c, lr) == lr

\* (mutant of PivotColumn: ipvt[c] is written after the zero-diagonal test)
PivotColumnLateWrite(sv, m, nn, piv, c, lr, exch) ==
    IF c # lr /\ lr = -1
    THEN [a |-> m, ipvt |-> piv, exchanged |-> exch, at |-> "no_pivot"]
    ELSE LET m1 == IF c # lr THEN SwapRows(sv, m, nn, lr, c) ELSE m
             e1 == IF c # lr THEN exch \cup {c} ELSE exch
         IN  IF m1[c * nn + c] = Zero
             THEN [a |-> m1, ipvt |-> piv, exchanged |-> e1, at |-> "zero_diag"]
             ELSE [a |-> IF c # nn - 1 THEN ScaleColumn(m1, nn, c) ELSE m1,
                   ipvt |-> [piv EXCEPT ![c] = lr], exchanged |-> e1,
                   at |-> "next"]

\* Everything lu_factor does for column c after the reduction: the row
\* exchange, the ipvt write, the zero-diagonal check and the scaling.
\* at: "no_pivot" (return at the largestRow == -1 test), "zero_diag"
\* (return at the diagonal test), "next" (column done).
PivotColumn(sv, m, nn, piv, c, lr, exch) ==
    IF c # lr /\ lr = -1
    THEN [a |-> m, ipvt |-> piv, exchanged |-> exch, at |-> "no_pivot"]
    ELSE LET m1 == IF c # lr THEN SwapRows(sv, m, nn, lr, c) ELSE m
             e1 == IF c # lr THEN exch \cup {c} ELSE exch
             p1 == [piv EXCEPT ![c] = PivotEntry(c, lr)]
         IN  IF ZeroDiagonal(m1, nn, c)
             THEN [a |-> m1, ipvt |-> p1, exchanged |-> e1, at |-> "zero_diag"]
             ELSE [a |-> IF c # nn - 1 THEN ScaleColumn(m1, nn, c) ELSE m1,
                   ipvt |-> p1, exchanged |-> e1, at |-> "next"]

\* --------------------------------------------------------------- lu_solve
\* "swap = b[row]; b[row] = b[i]; b[i] = swap" with row = ipvt[i]
Exchange(bb, piv, r) ==
    [bb EXCEPT ![piv[r]] = bb[r], ![r] = bb[piv[r]]]

\* (mutant of ScanLoop: the early stop leaves i at the row it stopped on)
RECURSIVE ScanLoopNoIncrement(_, _, _, _, _)
ScanLoopNoIncrement(bb, nn, piv, r, log) ==
    IF r >= nn THEN [b |-> bb, bi |-> 0, i |-> r, xlog |-> log]
    ELSE LET b1 == Exchange(bb, piv, r)
         IN  IF b1[r] # Zero
             THEN [b |-> b1, bi |-> r, i |-> r, xlog |-> Append(log, r)]
             ELSE ScanLoopNoIncrement(b1, nn, piv, r + 1, Append(log, r))

\* the scan loop from row r: exchanges until a swapped-in value is nonzero;
\* yields b, bi, the row i at which the next loop starts, and the rows
\* exchanged so far
RECURSIVE ScanLoop(_, _, _, _, _)
ScanLoop(bb, nn, piv, r, log) ==
    IF r >= nn THEN [b |-> bb, bi |-> 0, i |-> r, xlog |-> log]
    ELSE LET b1 == Exchange(bb, piv, r)
         IN  IF b1[r] # Zero
             THEN [b |-> b1, bi |-> r, i |-> r + 1, xlog |-> Append(log, r)]
             ELSE ScanLoop(b1, nn, piv, r + 1, Append(log, r))

\* tot after "for (c = c0; c < cend; c++) tot -= a[r*n + c] * b[c]"
RECURSIVE SubRow(_, _, _, _, _, _, _)
SubRow(tot, m, nn, r, bb, c, cend) ==
    IF c >= cend THEN tot
    ELSE SubRow(RSub(tot, RMul(m[r * nn + c], bb[c])), m, nn, r, bb, c + 1, cend)

\* the two lanes of sum after
\* "for (; jj + 1 < cend; jj += 2) sum += (a[r][jj]*b[jj], a[r][jj+1]*b[jj+1])"
RECURSIVE RowLanes(_, _, _, _, _, _, _)
RowLanes(sum, m, nn, r, bb, jj, cend) ==
    IF jj + 1 >= cend THEN sum
    ELSE RowLanes(<< RAdd(sum[1], RMul(m[r * nn + jj], bb[jj])),
                     RAdd(sum[2], RMul(m[r * nn + jj + 1], bb[jj + 1])) >>,
                  m, nn, r, bb, jj + 2, cend)

\* tot - sum of a[r][c]*b[c] over c in [c0, cend), as each build computes it
RowReduce(sv, tot, m, nn, r, bb, c0, cend) ==
    IF sv /\ cend - c0 >= 2
    THEN LET sum == RowLanes(<< Zero, Zero >>, m, nn, r, bb, c0, cend)
             t1 == RSub(tot, RAdd(sum[1], sum[2]))
         IN  SubRow(t1, m, nn, r, bb, PairStop(c0, cend), cend)
    ELSE SubRow(tot, m, nn, r, bb, c0, cend)

\* the forward-substitution loop from row r, summing from column first
RECURSIVE ForwardLoop(_, _, _, _, _, _, _, _)
ForwardLoop(sv, m, nn, piv, bb, first, r, log) ==
    IF r >= nn THEN [b |-> bb, xlog |-> log]
    ELSE LET row == piv[r]
             tot == bb[row]
             b1 == [bb EXCEPT ![row] = bb[r]]
             b2 == [b1 EXCEPT ![r] = RowReduce(sv, tot, m, nn, r, b1, first, r)]
         IN  ForwardLoop(sv, m, nn, piv, b2, first, r + 1, Append(log, r))

\* the back-substitution loop from row r down to row 0
RECURSIVE BackLoop(_, _, _, _, _)
BackLoop(sv, m, nn, bb, r) ==
    IF r < 0 THEN bb
    ELSE BackLoop(sv, m, nn,
                  [bb EXCEPT ![r] = RDiv(RowReduce(sv, bb[r], m, nn, r, bb, r + 1, nn),
                                         m[r * nn + r])],
                  r - 1)

\* lu_solve as a whole: the solution it leaves in b
LuSolve(sv, m, nn, piv, bb) ==
    LET s == ScanLoop(bb, nn, piv, 0, << >>)
        f == ForwardLoop(sv, m, nn, piv, s.b, s.bi, s.i, s.xlog)
    IN  BackLoop(sv, m, nn, f.b, nn - 1)

\* lu_factor as a whole, from column c on; st = [a, ipvt, exchanged];
\* yields the buffers it leaves, its return value and where it returned
RECURSIVE ColumnLoop(_, _, _, _)
ColumnLoop(sv, st, nn, c) ==
    IF c >= nn
    THEN [a |-> st.a, ipvt |-> st.ipvt, exchanged |-> st.exchanged,
          ret |-> -1, at |-> "factored"]
    ELSE LET red == ReduceColumn(sv, st.a, nn, c)
             piv == PivotColumn(sv, red.a, nn, st.ipvt, c, red.largestRow,
                                st.exchanged)
         IN  IF piv.at = "next"
             THEN ColumnLoop(sv, piv, nn, c + 1)
             ELSE [a |-> piv.a, ipvt |-> piv.ipvt, exchanged |-> piv.exchanged,
                   ret |-> c, at |-> piv.at]

LuFactor(sv, m, nn, piv) ==
    IF ZeroRowCheck(m, nn) # -1
    THEN [a |-> m, ipvt |-> piv, exchanged |-> {},
          ret |-> ZeroRowCheck(m, nn), at |-> "zero_row"]
    ELSE ColumnLoop(sv, [a |-> m, ipvt |-> piv, exchanged |-> {}], nn, 0)

\* ------------------------------------------------------------- the inputs
\* every n x n matrix with entries in -MaxVal..MaxVal
Dense(nn) == [0 .. nn * nn - 1 -> {R(v) : v \in -MaxVal .. MaxVal}]

\* every n x n pentadiagonal Toeplitz matrix: a[i][j] = t[i-j] for
\* |i-j| <= 2 with t in 0..MaxT, zero elsewhere
Toeplitz(nn) ==
    { [p \in 0 .. nn * nn - 1 |->
          LET d == (p \div nn) - (p % nn)
          IN  IF Abs(d) <= 2 THEN R(t[d]) ELSE Zero]
      : t \in [-2 .. 2 -> 0 .. MaxT] }

\* the two concrete scenarios of the specification's section 8
\* sequences are 1-based; the buffers are 0-based
ZeroBased(s) == [p \in 0 .. Len(s) - 1 |-> s[p + 1]]

Scenario(nn) ==
    IF nn = 2 THEN { ZeroBased(<< R(4), R(3), R(6), R(3) >>) }
    ELSE IF nn = 3
    THEN { [p \in 0 .. 8 |-> IF p \div 3 = p % 3 THEN One ELSE Zero] }
    ELSE {}

Matrices(nn) ==
    (IF nn <= 2 THEN Dense(nn) ELSE Toeplitz(nn))
        \cup Scenario(nn)

\* right-hand sides: z leading zeros, a value v at index z, w after it
\* (z = n gives the all-zero vector), and b = [1, 1] of the specification's
\* 2 x 2 scenario
Rhs(nn) ==
    { [p \in 0 .. nn - 1 |->
          IF p < z THEN Zero ELSE IF p = z THEN R(v) ELSE R(w)]
      : z \in 0 .. nn, v \in 1 .. MaxB, w \in -1 .. 0 }
        \cup (IF nn = 2 THEN { ZeroBased(<< One, One >>) } ELSE {})

\* ------------------------------------------------------------------- Init
Init ==
    /\ simd \in BOOLEAN
    /\ n \in 1 .. MaxN
    /\ a \in Matrices(n)
    /\ a0 = a
    /\ ipvt = [p \in 0 .. n - 1 |-> -1 - p]
    /\ ipvt0 = ipvt
    /\ b = [p \in 0 .. n - 1 |-> Zero]
    /\ b0 = b
    /\ pc = "precheck"
    /\ j = 0
    /\ largestRow = -1
    /\ ret = -2
    /\ bi = 0
    /\ i = 0
    /\ exchanged = {}
    /\ xlog = << >>
    /\ again = FALSE

\* ---------------------------------------------------- lu_factor's actions
\* lines 29-40: the all-zero-row scan
PreCheck ==
    /\ pc = "precheck"
    /\ LET r == ZeroRowCheck(a, n)
       IN  IF r # -1
           THEN /\ ret' = r
                /\ pc' = "fail_zero_row"
           ELSE /\ ret' = ret
                /\ pc' = "reduce"
    /\ UNCHANGED << simd, n, a, ipvt, b, j, largestRow, bi, i,
                    a0, ipvt0, b0, exchanged, xlog, again >>

\* lines 46-68: column j's upper and lower parts and the pivot candidate
Reduce ==
    /\ pc = "reduce"
    /\ LET st == ReduceColumn(simd, a, n, j)
       IN  /\ a' = st.a
           /\ largestRow' = st.largestRow
    /\ pc' = "pivot"
    /\ UNCHANGED << simd, n, ipvt, b, j, ret, bi, i,
                    a0, ipvt0, b0, exchanged, xlog, again >>

\* lines 71-98: exchange, ipvt[j], zero-diagonal check, scaling, j++
Pivot ==
    /\ pc = "pivot"
    /\ LET st == PivotColumn(simd, a, n, ipvt, j, largestRow, exchanged)
       IN  /\ a' = st.a
           /\ ipvt' = st.ipvt
           /\ exchanged' = st.exchanged
           /\ IF st.at = "next"
              THEN /\ j' = j + 1
                   /\ IF j + 1 < n
                      THEN /\ pc' = "reduce"
                           /\ ret' = ret
                      ELSE /\ pc' = "factored"
                           /\ ret' = -1
              ELSE /\ j' = j
                   /\ pc' = IF st.at = "no_pivot" THEN "fail_no_pivot"
                                                  ELSE "fail_zero_diag"
                   /\ ret' = j
    /\ UNCHANGED << simd, n, b, largestRow, bi, i, a0, ipvt0, b0, xlog, again >>

\* ----------------------------------------------------- lu_solve's actions
\* a call lu_solve(a, n, ipvt, b) with a fresh right-hand side, up to the
\* end of the scan loop (lines 116-127)
SolveScan ==
    /\ pc \in {"factored", "solved"}
    /\ again' = (pc = "solved")
    /\ \E rhs \in Rhs(n) :
          LET s == ScanLoop(rhs, n, ipvt, 0, << >>)
          IN  /\ b0' = rhs
              /\ b' = s.b
              /\ bi' = s.bi
              /\ i' = s.i
              /\ xlog' = s.xlog
    /\ pc' = "forward"
    /\ UNCHANGED << simd, n, a, ipvt, j, largestRow, ret, a0, ipvt0, exchanged >>

\* lines 130-138: the rest of the exchanges and the forward substitution
Forward ==
    /\ pc = "forward"
    /\ LET f == ForwardLoop(simd, a, n, ipvt, b, bi, i, xlog)
       IN  /\ b' = f.b
           /\ xlog' = f.xlog
    /\ i' = n
    /\ pc' = "back"
    /\ UNCHANGED << simd, n, a, ipvt, j, largestRow, ret, bi,
                    a0, ipvt0, b0, exchanged, again >>

\* lines 141-147: the back substitution; lu_solve returns
Back ==
    /\ pc = "back"
    /\ b' = BackLoop(simd, a, n, b, n - 1)
    /\ i' = -1
    /\ pc' = "solved"
    /\ UNCHANGED << simd, n, a, ipvt, j, largestRow, ret, bi,
                    a0, ipvt0, b0, exchanged, xlog, again >>

Next == PreCheck \/ Reduce \/ Pivot \/ SolveScan \/ Forward \/ Back

Spec == Init /\ [][Next]_vars
\* ===================================================== the properties
\* ------------------------------------------------ vocabulary of the claims
Succeeded == pc \in {"factored", "forward", "back", "solved"}
Failed == pc \in {"fail_zero_row", "fail_no_pivot", "fail_zero_diag"}

\* ipvt[c] has been stored to by this lu_factor call (a stored value is a
\* row index, the caller's buffer held none)
Written(c) == ipvt[c] # ipvt0[c]

HasZeroRow(m, nn) == \E r \in 0 .. nn - 1 : \A c \in 0 .. nn - 1 : m[r * nn + c] = Zero

\* every value in rows c..n-1 of column c is zero
ColZero(m, nn, c) == \A r \in c .. nn - 1 : m[r * nn + c] = Zero

Identity(nn) == [p \in 0 .. nn * nn - 1 |-> IF p \div nn = p % nn THEN One ELSE Zero]

\* the determinant of an integer matrix, by expansion along row 0
RECURSIVE Det(_, _)
RECURSIVE DetSum(_, _, _)
Minor(m, nn, c) ==
    [p \in 0 .. (nn - 1) * (nn - 1) - 1 |->
        LET r == p \div (nn - 1)
            cc == p % (nn - 1)
        IN  m[(r + 1) * nn + (IF cc < c THEN cc ELSE cc + 1)]]
DetSum(m, nn, c) ==
    IF c >= nn THEN 0
    ELSE (IF c % 2 = 0 THEN 1 ELSE -1) * m[c] * Det(Minor(m, nn, c), nn - 1)
         + DetSum(m, nn, c + 1)
Det(m, nn) == IF nn = 1 THEN m[0] ELSE DetSum(m, nn, 0)

\* the input matrices have integer entries
Singular(m, nn) == Det([p \in DOMAIN m |-> m[p][1]], nn) = 0

\* the sum of m[r][c] * x[c] over c in [c0, cend)
RECURSIVE RowDot(_, _, _, _, _, _)
RowDot(m, nn, r, x, c0, cend) ==
    IF c0 >= cend THEN Zero
    ELSE RAdd(RMul(m[r * nn + c0], x[c0]), RowDot(m, nn, r, x, c0 + 1, cend))

\* the product m * x
MatVec(m, nn, x) == [r \in 0 .. nn - 1 |-> RowDot(m, nn, r, x, 0, nn)]

\* the sequence <<0, 1, ..., k-1>>
UpTo(k) == [q \in 1 .. k |-> q - 1]

\* the reference solve: all n exchanges, then forward substitution over the
\* full range [0, r) for every row r, then back substitution
RECURSIVE RefExchange(_, _, _, _)
RefExchange(x, piv, nn, r) ==
    IF r >= nn THEN x
    ELSE RefExchange([x EXCEPT ![r] = x[piv[r]], ![piv[r]] = x[r]], piv, nn, r + 1)
RECURSIVE RefForward(_, _, _, _)
RefForward(m, nn, x, r) ==
    IF r >= nn THEN x
    ELSE RefForward(m, nn, [x EXCEPT ![r] = RSub(x[r], RowDot(m, nn, r, x, 0, r))],
                    r + 1)
RECURSIVE RefBack(_, _, _, _)
RefBack(m, nn, x, r) ==
    IF r < 0 THEN x
    ELSE RefBack(m, nn,
                 [x EXCEPT ![r] = RDiv(RSub(x[r], RowDot(m, nn, r, x, r + 1, nn)),
                                       m[r * nn + r])],
                 r - 1)
RefSolve(m, nn, piv, x) ==
    RefBack(m, nn, RefForward(m, nn, RefExchange(x, piv, nn, 0), 0), nn - 1)

\* ------------------------------------------------------------------- C1
\* C1: for a non-singular A, lu_factor returns -1 (a failure is returned
\* only for a singular A); no step of lu_solve, in the first call or in a
\* later one, changes the factored matrix or ipvt; and every lu_solve call
\* leaves in b a vector x with A * x = b for the original A and the b it
\* was given.
Thm_C1_SolveAfterFactor ==
    [][/\ Failed' => Singular(a0, n)
       /\ pc' = "factored" => ret' = -1
       /\ Succeeded => (a' = a /\ ipvt' = ipvt /\ ret' = ret)
       /\ pc' = "solved" => MatVec(a0, n, b') = b0'
      ]_vars

\* a second solve against one factorization of a 3 x 3 or larger matrix
\* that needed a row exchange, with leading zeros in the right-hand side
Wit_C1_SecondSolve ==
    /\ pc = "solved"
    /\ again
    /\ n >= 3
    /\ ~Singular(a0, n)
    /\ exchanged # {}
    /\ bi > 0
    /\ \E r \in 0 .. n - 1 : b[r] # b0[r]

\* ------------------------------------------------------------------- C2
\* C2: when the matrix has an all-zero row, lu_factor returns the index of
\* the lowest all-zero row from the pre-check, and the matrix and ipvt are
\* exactly as they were on entry.
Thm_C2_ZeroRow ==
    (HasZeroRow(a0, n) /\ pc # "precheck") =>
        /\ pc = "fail_zero_row"
        /\ ret \in 0 .. n - 1
        /\ \A c \in 0 .. n - 1 : a0[ret * n + c] = Zero
        /\ \A r \in 0 .. ret - 1 : \E c \in 0 .. n - 1 : a0[r * n + c] # Zero
        /\ a = a0
        /\ ipvt = ipvt0

\* two all-zero rows, the lowest of them not row 0
Wit_C2_ZeroRow ==
    /\ pc = "fail_zero_row"
    /\ ret > 0
    /\ \E r \in ret + 1 .. n - 1 : \A c \in 0 .. n - 1 : a0[r * n + c] = Zero

\* ------------------------------------------------------------------- C3
\* C3: for a singular matrix without an all-zero row, lu_factor never
\* returns -1; it returns a column j in 0..n-1 whose values in rows j..n-1
\* are all zero after reduction, and every earlier column had a nonzero
\* pivot (so j is the first such column).
Thm_C3_SingularColumn ==
    ((pc = "factored" \/ Failed) /\ ~HasZeroRow(a0, n) /\ Singular(a0, n)) =>
        /\ pc = "fail_zero_diag"
        /\ ret \in 0 .. n - 1
        /\ ret = j
        /\ ColZero(a, n, ret)
        /\ \A c \in 0 .. ret - 1 : a[c * n + c] # Zero

\* two identical rows in a 3 x 3 or larger matrix, failing after column 0
Wit_C3_IdenticalRows ==
    /\ Failed
    /\ n >= 3
    /\ ~HasZeroRow(a0, n)
    /\ \E r1, r2 \in 0 .. n - 1 :
          /\ r1 < r2
          /\ \A c \in 0 .. n - 1 : a0[r1 * n + c] = a0[r2 * n + c]
    /\ ret > 0

\* ------------------------------------------------------------------- C4
\* C4: at the pivot step of column j, largestRow is a row in j..n-1 whose
\* reduced value in column j has the greatest absolute value, the highest
\* indexed of the rows that share it, and that row is the one the step
\* puts in position j; for A = [[4,3],[6,3]] it is row 1 in column 0.
Thm_C4_PivotChoice ==
    [][pc = "pivot" =>
          /\ largestRow \in j .. n - 1
          /\ \A r \in j .. n - 1 :
                /\ RGeq(fabs(a[largestRow * n + j]), fabs(a[r * n + j]))
                /\ fabs(a[r * n + j]) = fabs(a[largestRow * n + j]) => r <= largestRow
          /\ \A c \in 0 .. n - 1 : a'[j * n + c] = a[largestRow * n + c]
          /\ (a0 = ZeroBased(<< R(4), R(3), R(6), R(3) >>) /\ j = 0) => largestRow = 1
      ]_vars

\* a tie between nonzero values in a column past the first, in a row
\* other than the first candidate
Wit_C4_Tie ==
    /\ pc = "pivot"
    /\ j >= 1
    /\ largestRow > j
    /\ a[largestRow * n + j] # Zero
    /\ \E r \in j .. largestRow - 1 :
          fabs(a[r * n + j]) = fabs(a[largestRow * n + j])
    /\ \E r \in j .. n - 1 :
          fabs(a[r * n + j]) # fabs(a[largestRow * n + j])

\* ------------------------------------------------------------------- C5
\* C5: after lu_factor returns -1 every ipvt[c] has been written with
\* c <= ipvt[c] <= n-1, and ipvt[c] = c exactly for the columns whose row
\* exchange did not run; the identity matrix yields ipvt = [0, ..., n-1].
Thm_C5_PivotVector ==
    /\ Succeeded =>
          \A c \in 0 .. n - 1 :
              /\ Written(c)
              /\ c <= ipvt[c]
              /\ ipvt[c] <= n - 1
              /\ ipvt[c] = c <=> c \notin exchanged
    /\ a0 = Identity(n) =>
          /\ ~Failed
          /\ Succeeded => ipvt = [c \in 0 .. n - 1 |-> c]

\* a success with both a column that exchanged and an earlier one that
\* did not
Wit_C5_Mixed ==
    /\ pc = "factored"
    /\ n >= 3
    /\ \E c1, c2 \in 0 .. n - 2 :
          /\ c1 < c2
          /\ c1 \notin exchanged
          /\ c2 \in exchanged

\* ------------------------------------------------------------------- C6
\* C6 as stated: on every failure reporting r, the ipvt entries before r
\* are written, those after r are untouched, and some entry is unwritten.
Orig_C6_PartialOnFailure ==
    Failed =>
        /\ \A c \in 0 .. ret - 1 : Written(c)
        /\ \A c \in ret + 1 .. n - 1 : ~Written(c)
        /\ \E c \in 0 .. n - 1 : ~Written(c)

\* C6 (amended): a pre-check failure writes no ipvt entry; a failure at
\* column r leaves the entries 0..r written, r included, and those after r
\* untouched, so ipvt is fully written on success and on a failure at the
\* last column.
Thm_C6_WrittenUpToFailure ==
    /\ pc = "fail_zero_row" => ipvt = ipvt0
    /\ pc \in {"fail_no_pivot", "fail_zero_diag"} =>
          /\ \A c \in 0 .. ret : Written(c)
          /\ \A c \in ret + 1 .. n - 1 : ipvt[c] = ipvt0[c]
    /\ Succeeded => \A c \in 0 .. n - 1 : Written(c)

\* a failure at the last column of a 3 x 3 or larger matrix: every entry
\* of ipvt is written
Wit_C6_LastColumn ==
    /\ pc = "fail_zero_diag"
    /\ n >= 3
    /\ ret = n - 1
    /\ \A c \in 0 .. n - 1 : Written(c)

\* ------------------------------------------------------------------- C7
\* C7: the two builds agree: when lu_factor returns, its return value,
\* ipvt and the matrix are those the other build computes from the same
\* input, and the solution lu_solve leaves is the one the other build's
\* lu_solve computes from the same factorization and right-hand side.
Thm_C7_BuildsAgree ==
    /\ (pc = "factored" \/ Failed) =>
          /\ ret = LuFactor(~simd, a0, n, ipvt0).ret
          /\ ipvt = LuFactor(~simd, a0, n, ipvt0).ipvt
          /\ a = LuFactor(~simd, a0, n, ipvt0).a
    /\ pc = "solved" => b = LuSolve(~simd, a, n, ipvt, b0)

\* the vectorized build on a 4 x 4 matrix: column 3 and row 3 take the
\* paired step and then the trailing element, with nonzero operands
Wit_C7_TrailingElement ==
    /\ pc = "solved"
    /\ simd
    /\ n >= 4
    /\ bi = 0
    /\ a[3 * n + 2] # Zero
    /\ a[2 * n + 3] # Zero
    /\ a[3] # Zero
    /\ exchanged # {}
    /\ \A r \in 0 .. n - 1 : b[r] # Zero

\* ------------------------------------------------------------------- C8
\* C8 as stated: when every reduced value in rows j..n-1 of column j is
\* zero, largestRow is still -1 and lu_factor fails at the pivot step,
\* before the row exchange and before ipvt[j] is written.
Orig_C8_NoCandidate ==
    /\ (pc = "pivot" /\ ColZero(a, n, j)) => largestRow = -1
    /\ (pc \in {"fail_no_pivot", "fail_zero_diag"} /\ ColZero(a, n, j)) =>
          /\ pc = "fail_no_pivot"
          /\ ~Written(j)
          /\ j \notin exchanged

\* C8 (amended): when every reduced value in rows j..n-1 of column j is
\* zero, each row passes the >= test, so largestRow is n-1; rows j and n-1
\* are exchanged when j # n-1, ipvt[j] = n-1 is written, and lu_factor
\* fails reporting column j at the zero-diagonal check.
Thm_C8_ZeroColumn ==
    [][(pc = "pivot" /\ ColZero(a, n, j)) =>
          /\ largestRow = n - 1
          /\ pc' = "fail_zero_diag"
          /\ ret' = j
          /\ ipvt'[j] = n - 1
          /\ j \in exchanged' <=> j # n - 1
      ]_vars

\* an all-zero reduced column before the last column, past column 0
Wit_C8_ZeroColumn ==
    /\ pc = "fail_zero_diag"
    /\ ColZero(a, n, j)
    /\ j >= 1
    /\ j < n - 1
    /\ j \in exchanged

\* ------------------------------------------------------------------- C9
\* C9 as stated: the exchanges of b[r] with b[ipvt[r]] run once each, for
\* r = 0..n-1 in increasing order, those with r <= bi in the scan loop and
\* the rest in the forward loop, and the solution equals that of the
\* reference solve (all exchanges first, forward substitution over the
\* full range).
Orig_C9_EarlyStop ==
    /\ pc = "forward" => (xlog = UpTo(bi + 1) /\ i = bi + 1)
    /\ pc \in {"back", "solved"} => xlog = UpTo(n)
    /\ pc = "solved" => b = RefSolve(a, n, ipvt, b0)

\* C9 (amended): the exchanges run once each, for r = 0..n-1 in increasing
\* order: when the scan loop stops early, those with r <= bi run in it and
\* the rest in the forward loop; when no swapped-in value is nonzero, all
\* n run in the scan loop and bi stays 0.  The solution equals that of the
\* reference solve.
Thm_C9_EarlyStop ==
    /\ pc = "forward" =>
          /\ xlog = UpTo(i)
          /\ \/ i = bi + 1 /\ b[bi] # Zero
             \/ i = n /\ bi = 0 /\ \A r \in 0 .. n - 1 : b[r] = Zero
    /\ pc \in {"back", "solved"} => xlog = UpTo(n)
    /\ pc = "solved" => b = RefSolve(a, n, ipvt, b0)

\* an early stop in the middle of a right-hand side, on a factorization
\* that exchanged rows, with a nonzero solution
Wit_C9_MiddleStop ==
    /\ pc = "solved"
    /\ n >= 3
    /\ bi > 0
    /\ bi < n - 1
    /\ \E c \in bi .. n - 1 : ipvt[c] # c
    /\ \E r \in 0 .. bi - 1 : b[r] # Zero

\* ------------------------------------------------------------------ C10
\* C10: after lu_factor returns -1 every diagonal entry of the factored
\* matrix, the last one included, is nonzero, and a solve that follows
\* divides by no zero: every value it leaves in b is finite.
Thm_C10_NonzeroDiagonal ==
    /\ Succeeded => \A c \in 0 .. n - 1 : a[c * n + c][1] # 0
    /\ pc = "solved" => \A r \in 0 .. n - 1 : b[r][2] # 0

\* a completed solve whose last division was by a value other than 1
Wit_C10_Solved ==
    /\ pc = "solved"
    /\ n >= 3
    /\ a[n * n - 1] \notin {One, Zero}
    /\ b[n - 1] # Zero
====
